---- MODULE Spec2Model ----
(***************************************************************************)
(* Model of AI_XL_Agent/sql_tables_execution.py: sql_pipeline, the table   *)
(* relevance step, the context assembly, the tool dispatch loop of         *)
(* generate_sql_query_multi_tables and the query executor.                 *)
(*                                                                         *)
(* The reasoning engine, the metadata store and the relational store are   *)
(* the environment: every answer they can give is an input drawn from a    *)
(* small set.  A python exception in flight is the variable exc; the       *)
(* position in the code is pc.                                             *)
(***************************************************************************)
EXTENDS Integers, Sequences, FiniteSets, TLC

\* ---------------------------------------------------------------- bounds
\* most tool invocations in one engine response (LoopSpec)
MaxCalls == 3
\* largest token count the engine reports for a response
MaxTokens == 2

\* most examples in the example library
MaxExamples == 3
\* most rows and most columns of a frame handed to format_dataframe
MaxRows == 2
MaxColumns == 2

\* ------------------------------------------------------ program constants
\* range(1, 6): the loop runs for count = 1..5
MaxIterations == 5

\* ----------------------------------------------------------- input sets
Questions == {"q1", "q2"}
\* table names the metadata store holds for the market
Catalog == {"sales"}
\* a name the engine can invent
Hallucinated == "ghost"
\* rel_tables as passed by the caller of sql_pipeline (None is the default)
NoneTables == <<"None">>
CallerTables == {NoneTables, <<>>, <<"sales">>}
\* the relevant_tables array of the relevance answer
RelevanceAnswers == {<<>>, <<"sales">>, <<"sales", Hallucinated>>}
\* query texts: a read, a statement sqlite rejects, a write
Queries == {"SELECT", "BAD", "INSERT"}
\* the stop argument of an invocation; "absent" when the key is missing
StopValues == {"true", "false", "absent"}
TokenCounts == 1..MaxTokens

\* one element of response.choices[0].message.tool_calls
ToolCall(fn, wellformed, q, s) ==
    [name |-> fn, valid |-> wellformed, sql_query |-> q, stop |-> s]
\* arguments that json.loads rejects
MalformedCall == ToolCall("execute_sql_query", FALSE, "SELECT", "absent")
\* a function name that is not defined in the module
UnknownFunctionCall == ToolCall("undefined_tool", TRUE, "SELECT", "absent")
\* another function of the module, with the arguments it accepts
\* ({"market": ...}, no sql_query key)
OtherFunctionCall == ToolCall("get_table_info", TRUE, "absent", "absent")
\* the names eval can resolve in sql_tables_execution.py
DefinedFunctions == {"execute_sql_query", "get_table_info"}

SeqsUpTo(S, n) == UNION {[1..k -> S] : k \in 1..n}
Range(seq) == {seq[i] : i \in 1..Len(seq)}

\* engine responses of the pipeline specification: one invocation each
PipelineToolCalls ==
    {ToolCall("execute_sql_query", TRUE, q, "false") : q \in Queries}
    \cup {ToolCall("execute_sql_query", TRUE, "SELECT", s) : s \in StopValues}
    \cup {MalformedCall, UnknownFunctionCall, OtherFunctionCall}
PipelineResponses == SeqsUpTo(PipelineToolCalls, 1)
PipelineUsages ==
    {[prompt_tokens |-> p, completion_tokens |-> 1] : p \in TokenCounts}

\* engine responses of the loop specification: up to MaxCalls invocations
LoopToolCalls ==
    {ToolCall("execute_sql_query", TRUE, "SELECT", s) : s \in {"true", "false"}}
LoopResponses == SeqsUpTo(LoopToolCalls, MaxCalls)
LoopUsages == {[prompt_tokens |-> 1, completion_tokens |-> 1]}

\* engine responses of the round specification: invocations with
\* different query texts in one response; a response can end in an
\* invocation whose arguments carry no sql_query
SelectCall == ToolCall("execute_sql_query", TRUE, "SELECT", "false")
InsertCall == ToolCall("execute_sql_query", TRUE, "INSERT", "false")
BadStopCall == ToolCall("execute_sql_query", TRUE, "BAD", "true")
RoundResponses ==
    {<<InsertCall, SelectCall>>, <<SelectCall, InsertCall>>,
     <<SelectCall, BadStopCall>>, <<BadStopCall>>,
     <<SelectCall, OtherFunctionCall>>}

VARIABLES
    pc,                   \* position in sql_pipeline
    exc,                  \* the exception in flight or raised to the caller
    user_input,           \* the question
    rel_tables,           \* sql_pipeline's rel_tables
    rel_tables_check,
    connection,           \* sql_pipeline's connection: "none", "open", "closed"
    relevance_requests,   \* table_info of each relevance request sent
    formatted_SQL_prompt, \* the message list sent to the engine
    stop, count,
    response,             \* the engine response of the current round
    k,                    \* index of the next tool call of the round
    iteration_results, iteration_results_db, iteration_stop_signals,
    all_results, all_results_db,
    cost,                 \* generate_sql_query_multi_tables's cost
    engine_calls,         \* round-generation requests sent to the engine
    results_bound,        \* sql_pipeline's local all_results is assigned
    db,                   \* rows of the relational store
    error_log,            \* records of sql_errors.txt
    returned,             \* what the caller of sql_pipeline receives
    store_connect_failed, \* a connect inside execute_sql_query has failed
    invoked,              \* the function names line 424 has called
    clock,                \* time.time() on a logical clock
    query_gen_timer_start,
    sql_query_generation_time,
    sql_query_execution_time,
    relevant_tables_selection_time,
    heap,                 \* the message lists of two concurrent sessions
    sessions,             \* the locals of two concurrent sessions
    processes_info,       \* the progress entry of sql_pipeline
    call,                 \* a call of one function on its own: its arguments
    outcome               \* what that call returned or raised

vars == <<pc, exc, user_input, rel_tables, rel_tables_check, connection,
          relevance_requests, formatted_SQL_prompt, stop, count, response, k,
          iteration_results, iteration_results_db, iteration_stop_signals,
          all_results, all_results_db, cost, engine_calls, results_bound,
          db, error_log, returned, store_connect_failed, invoked, clock,
          query_gen_timer_start, sql_query_generation_time,
          sql_query_execution_time, relevant_tables_selection_time,
          heap, sessions, processes_info, call, outcome>>

loopVars == <<formatted_SQL_prompt, stop, count, response, k,
              iteration_results, iteration_results_db, iteration_stop_signals,
              all_results, all_results_db, cost, engine_calls>>
roundVars == <<iteration_results, iteration_results_db, iteration_stop_signals>>
pipeVars == <<user_input, rel_tables, rel_tables_check, relevance_requests>>
timeVars == <<query_gen_timer_start, sql_query_generation_time,
              sql_query_execution_time, relevant_tables_selection_time>>
auditVars == <<store_connect_failed, invoked>>
sessionVars == <<heap, sessions>>
callVars == <<call, outcome>>

NoResponse == [tool_calls |-> <<>>,
               usage |-> [prompt_tokens |-> 0, completion_tokens |-> 0]]
NotReturned == [kind |-> "none"]
\* no function is called on its own
NoCall == [function |-> "none"]
NoOutcome == [kind |-> "none"]
\* a record an earlier failure left in sql_errors.txt
EarlierRecord == [user_input |-> "q0", results |-> <<>>, error |-> "earlier"]

\* --------------------------------------------------------- pure functions
EmptyDataFrame == [columns |-> 0, rows |-> 0]

\* execute_sql_query whose except branch hands back a non-empty frame
ExecuteSqlQueryLeaky(sql_query, store, connect_ok) ==
    IF ~connect_ok THEN [result |-> [columns |-> 1, rows |-> 1], db |-> store]
    ELSE CASE sql_query = "SELECT" ->
                [result |-> [columns |-> 1, rows |-> store], db |-> store]
           [] sql_query = "INSERT" ->
                [result |-> [columns |-> 0, rows |-> 0], db |-> store + 1]
           [] OTHER ->
                [result |-> [columns |-> 1, rows |-> 1], db |-> store]

\* execute_sql_query: the result and the store after the call
ExecuteSqlQuery(sql_query, store, connect_ok) ==
    IF ~connect_ok THEN [result |-> EmptyDataFrame, db |-> store]
    ELSE CASE sql_query = "SELECT" ->
                [result |-> [columns |-> 1, rows |-> store], db |-> store]
           [] sql_query = "INSERT" ->
                [result |-> EmptyDataFrame, db |-> store + 1]
           [] OTHER ->
                [result |-> EmptyDataFrame, db |-> store]

\* a test of the column set alone
IsEmptyNoColumns(data) == data.columns = 0

\* DataFrame.empty
IsEmpty(data) == data.columns = 0 \/ data.rows = 0

\* DataFrame.to_json(orient="records"): one record per row, <<>> is "[]"
ToJson(data) == [i \in 1..data.rows |-> i]

\* A string is the sequence of its tokens (cell texts and separators);
\* <<>> is the empty string.
\* a join that also puts the separator after the last element
JoinTrailing(strings, separator) ==
    LET Joined[n \in 0..Len(strings)] ==
            IF n = 0 THEN <<>>
            ELSE Joined[n - 1] \o strings[n] \o <<separator>>
    IN  Joined[Len(strings)]

\* separator.join(strings)
Join(strings, separator) ==
    LET Joined[n \in 0..Len(strings)] ==
            IF n = 0 THEN <<>>
            ELSE IF n = 1 THEN strings[1]
            ELSE Joined[n - 1] \o <<separator>> \o strings[n]
    IN  Joined[Len(strings)]

\* str(index) for the default RangeIndex, which starts at 0
IndexStr(i) == <<"0", "1", "2", "3", "4", "5", "6", "7", "8", "9">>[i + 1]

\* lines 499-516; data is [columns: the names, rows: the cells of each row]
format_dataframe(data, row_separator, col_separator, add_headers, add_indices) ==
    IF Len(data.columns) = 0 THEN <<>>
    ELSE
    LET Cells(values) == [c \in 1..Len(values) |-> <<values[c]>>]
        header == (IF add_indices THEN <<col_separator>> ELSE <<>>)
                  \o Join(Cells(data.columns), col_separator)
        Line(i) == (IF add_indices THEN <<IndexStr(i - 1), col_separator>>
                    ELSE <<>>)
                   \o Join(Cells(data.rows[i]), col_separator)
        formatted_rows ==
            (IF add_headers THEN <<header>> ELSE <<>>)
            \o [i \in 1..Len(data.rows) |-> Line(i)]
    IN  Join(formatted_rows, row_separator)

\* line 86: pd.DataFrame(result, columns=columns) for a result of the
\* executor, given by its numbers of columns and rows
Frame(result) ==
    [columns |-> [c \in 1..result.columns |-> "column"],
     rows |-> [i \in 1..result.rows |->
                  [c \in 1..result.columns |-> "value"]]]

\* line 436: format_dataframe(result) with the default separators
SerializableResult(result) ==
    IF ~IsEmpty(result)
    THEN format_dataframe(Frame(result), "\n", "\t", TRUE, FALSE)
    ELSE <<>>

\* a truthiness test in place of == True: a missing key would not stop,
\* but anything other than false does
StopSignalNotFalse(tool_call) == tool_call.stop # "false"

\* arguments.get('stop') == True
StopSignal(tool_call) == tool_call.stop = "true"

\* all() in place of any()
AllSignals(signals) == \A i \in 1..Len(signals) : signals[i]

\* any(iteration_stop_signals)
AnySignal(signals) == \E i \in 1..Len(signals) : signals[i]

\* range(1, 7)
LoopContinuesSixRounds(c, s) == c <= MaxIterations + 1 /\ ~s

\* the loop without its break
LoopContinuesIgnoringStop(c, s) == c <= MaxIterations

\* range(1, 5)
LoopContinuesFourRounds(c, s) == c < MaxIterations /\ ~s

\* the for statement's guard together with the break
LoopContinues(c, s) == c <= MaxIterations /\ ~s

\* cost of a round, in units of 2.5 * 83.52 / 1,000,000
RoundCost(previous, usage) ==
    4 * usage.completion_tokens + usage.prompt_tokens

\* the assistant turn numbered from 0
AssistantTurnZeroBased(c, results) ==
    [role |-> "assistant",
     content |-> [iteration_number |-> c - 1, iteration_results |-> results]]

\* lines 462-465: the assistant turn of round c
AssistantTurn(c, results) ==
    [role |-> "assistant",
     content |-> [iteration_number |-> c, iteration_results |-> results]]

\* the entry inserted at the head of the round
RecordEntryAtHead(results, sql_query, result) ==
    <<[sql_query |-> sql_query, result |-> result]>> \o results

\* lines 441-448: the query-result pair is appended to the round
RecordEntry(results, sql_query, result) ==
    Append(results, [sql_query |-> sql_query, result |-> result])

\* the log opened in mode "w" before the message is formatted
WriteErrorLogTruncating(log, record, formatted) ==
    IF formatted THEN <<record>> ELSE <<>>

\* lines 554-564: the message is formatted first; only then is the log
\* opened in mode "a" and the record written at its end
WriteErrorLog(log, record, formatted) ==
    IF formatted THEN Append(log, record) ELSE log

\* the test "rel_tables is None"
NoTablesSuppliedNoneOnly(tables) == tables = NoneTables

\* line 538: not rel_tables
NoTablesSupplied(tables) == tables = NoneTables \/ tables = <<>>

\* an exit without the finally block
FinallyBlockMissing(conn, info) ==
    [connection |-> conn, processes_info |-> info]

\* lines 568-572: the cursor and the connection are closed and the
\* progress entry, when there is one, is marked complete
FinallyBlock(conn, info) ==
    [connection |-> "closed",
     processes_info |-> IF info = "absent" THEN "absent" ELSE "done"]

\* table names that can be selected: two of the metadata store and the
\* invented one
TableNames == {"sales", "orders", Hallucinated}

\* the table_schema and table_description texts of the market_tables rows
SchemaText(table) ==
    CASE table = "sales" -> "schema of sales"
      [] table = "orders" -> "schema of orders"
      [] OTHER -> "schema of ghost"
DescriptionText(table) ==
    CASE table = "sales" -> "description of sales"
      [] table = "orders" -> "description of orders"
      [] OTHER -> "description of ghost"

\* dict.get(key, default)
DictGet(dict, key, default) ==
    IF key \in DOMAIN dict THEN dict[key] ELSE default

\* a loop over table_names that is left at the first lookup error
GetTableSchemasUntilError(table_names, store) ==
    LET failed == {i \in 1..Len(table_names) :
                      store.schema[table_names[i]] = "error"}
        fetched == {table_names[i] : i \in
                      {j \in 1..Len(table_names) :
                          \A f \in failed : j < f}}
    IN  [t \in {u \in fetched : store.schema[u] = "present"} |->
            SchemaText(t)]

\* get_table_schemas lines 204-226 with the connection of line 207 open:
\* a table without a row or whose lookup raises sqlite3.OperationalError
\* gets no entry
get_table_schemas(table_names, store) ==
    [t \in {u \in Range(table_names) : store.schema[u] = "present"} |->
        SchemaText(t)]

\* get_table_comments_of_rel_tables lines 98-118: one query for all the
\* tables; an sqlite3.Error leaves the dict empty
get_table_comments_of_rel_tables(tables, store) ==
    IF tables = <<>> \/ ~store.comments_ok THEN <<>>
    ELSE [t \in {u \in Range(tables) : store.description[u] = "present"} |->
             DescriptionText(t)]

\* lines 355-368: one block per entry of rel_tables, in order
table_details(tables, store) ==
    LET table_schemas == get_table_schemas(tables, store)
        table_descriptions == get_table_comments_of_rel_tables(tables, store)
    IN  [i \in 1..Len(tables) |->
            [table_name |-> tables[i],
             table_description |->
                 DictGet(table_descriptions, tables[i],
                         "No description available."),
             table_schema |->
                 DictGet(table_schemas, tables[i], "No schema available.")]]

\* the metadata store with a full row for each table of the catalog
CatalogStore ==
    [schema |-> [t \in TableNames |->
                    IF t \in Catalog THEN "present" ELSE "missing"],
     description |-> [t \in TableNames |->
                    IF t \in Catalog THEN "present" ELSE "missing"],
     comments_ok |-> TRUE]

\* the table_details blocks of the system message
TableDetails(tables) == table_details(tables, CatalogStore)

\* --------------------------------------------- two concurrent sessions
Sessions == {"s1", "s2"}
SessionQuestion == [s \in Sessions |-> IF s = "s1" THEN "q1" ELSE "q2"]
TemplateNames == {"TABLE_IDENTIFIER_PROMPT", "SQL_QUERY_GENERATION_PROMPT"}

\* a message content with placeholders that str.format has not filled yet
Template(name) == [text |-> name, filled |-> FALSE, args |-> <<>>]

\* the module-level message lists imported from prompts
TABLE_IDENTIFIER_PROMPT ==
    <<[role |-> "system", content |-> Template("identifier_system")],
      [role |-> "user", content |-> Template("identifier_user")]>>
SQL_QUERY_GENERATION_PROMPT ==
    <<[role |-> "system", content |-> Template("generation_system")],
      [role |-> "user", content |-> Template("generation_user")]>>

\* a list object: the module-level one or the copy a session owns
ModuleRef(name) == <<"module", name>>
Refs == ({"module"} \cup Sessions) \X TemplateNames
NoRef == <<"none", "none">>

InitialHeap ==
    [r \in Refs |->
        IF r[1] # "module" THEN <<>>
        ELSE IF r[2] = "TABLE_IDENTIFIER_PROMPT" THEN TABLE_IDENTIFIER_PROMPT
        ELSE SQL_QUERY_GENERATION_PROMPT]

InitialSessions ==
    [s \in Sessions |->
        [pc |-> "start", stop |-> FALSE, count |-> 1,
         all_results |-> <<>>, prompt |-> NoRef]]

\* ------------------------------------------------------------------- Init
\* the state at the call of sql_pipeline
PipelineInit ==
    /\ pc = "start"
    /\ exc = "none"
    /\ user_input \in Questions
    /\ rel_tables \in CallerTables
    /\ rel_tables_check = FALSE
    /\ connection = "none"
    /\ relevance_requests = <<>>
    /\ formatted_SQL_prompt = <<>>
    /\ stop = FALSE
    /\ count = 1
    /\ response = NoResponse
    /\ k = 1
    /\ iteration_results = <<>>
    /\ iteration_results_db = <<>>
    /\ iteration_stop_signals = <<>>
    /\ all_results = <<>>
    /\ all_results_db = <<>>
    /\ cost = 0
    /\ engine_calls = 0
    /\ results_bound = FALSE
    /\ db = 0
    /\ error_log = <<EarlierRecord>>
    /\ returned = NotReturned
    /\ store_connect_failed = FALSE
    /\ invoked = {}
    /\ clock = 0
    /\ query_gen_timer_start = 0
    /\ sql_query_generation_time = 0
    /\ sql_query_execution_time = 0
    /\ relevant_tables_selection_time = 0
    /\ heap = InitialHeap
    /\ sessions = InitialSessions

\* sql_pipeline is called without a progress object
Init ==
    /\ PipelineInit
    /\ processes_info = "absent"
    /\ call = NoCall
    /\ outcome = NoOutcome

\* sql_pipeline lines 520-533: the progress entry is created when a
\* progress object is given; the connection is opened before the try
Connect ==
    /\ pc = "start"
    /\ processes_info' = IF processes_info = "given" THEN "running"
                         ELSE processes_info
    /\ \E connect_ok \in BOOLEAN :
         IF connect_ok
         THEN /\ connection' = "open"
              /\ pc' = IF NoTablesSupplied(rel_tables)
                       THEN "relevance" ELSE "assemble"
              /\ UNCHANGED <<exc, returned>>
         ELSE /\ pc' = "raised"
              /\ exc' = "OperationalError"
              /\ returned' = [kind |-> "exception"]
              /\ UNCHANGED connection
    /\ UNCHANGED <<pipeVars, loopVars, results_bound, db, error_log>>
    /\ UNCHANGED <<auditVars, clock, timeVars, sessionVars, callVars>>

\* sql_pipeline lines 538-545 with get_relevant_tables and get_table_info:
\* get_table_info swallows a metadata-store failure and yields {}; the
\* request takes one tick of the clock
GetRelevantTables ==
    /\ pc = "relevance"
    /\ clock' = clock + 1
    /\ \E metadata_ok \in BOOLEAN :
         LET table_info == IF metadata_ok THEN Catalog ELSE {} IN
         /\ relevance_requests' = Append(relevance_requests, table_info)
         /\ \/ \E answer \in RelevanceAnswers :
                 /\ rel_tables' = answer
                 /\ rel_tables_check' = TRUE
                 /\ relevant_tables_selection_time' = clock' - clock
                 /\ pc' = "assemble"
                 /\ UNCHANGED exc
            \/ \E failure \in {"APIConnectionError", "JSONDecodeError"} :
                 /\ exc' = failure
                 /\ pc' = "except"
                 /\ UNCHANGED <<rel_tables, rel_tables_check,
                                relevant_tables_selection_time>>
    /\ UNCHANGED <<user_input, connection, loopVars, results_bound, db,
                   error_log, returned>>
    /\ UNCHANGED <<auditVars, query_gen_timer_start,
                   sql_query_generation_time, sql_query_execution_time,
                   sessionVars, processes_info, callVars>>

\* generate_sql_query_multi_tables lines 349-391: the generation timer is
\* started, get_table_schemas opens the metadata store outside any try,
\* the prompt starts with two messages; the assembly takes one tick
Assemble ==
    /\ pc = "assemble"
    /\ clock' = clock + 1
    /\ sql_query_generation_time' = 0
    /\ sql_query_execution_time' = 0
    /\ query_gen_timer_start' = clock
    /\ \E metadata_ok \in BOOLEAN :
         IF metadata_ok
         THEN /\ formatted_SQL_prompt' =
                   <<[role |-> "system", content |-> TableDetails(rel_tables)],
                     [role |-> "user", content |-> user_input]>>
              /\ stop' = FALSE
              /\ all_results' = <<>>
              /\ all_results_db' = <<>>
              /\ count' = 1
              /\ pc' = "loop"
              /\ UNCHANGED exc
         ELSE /\ exc' = "OperationalError"
              /\ pc' = "except"
              /\ UNCHANGED <<formatted_SQL_prompt, stop, all_results,
                             all_results_db, count>>
    /\ UNCHANGED <<pipeVars, connection, response, k, roundVars, cost,
                   engine_calls, results_bound, db, error_log, returned>>
    /\ UNCHANGED <<auditVars, relevant_tables_selection_time, sessionVars,
                   processes_info, callVars>>

\* lines 392-416: one engine request of the loop; the request takes one
\* tick and the generation timer is read when the response is back
Generate(Responses, Usages) ==
    /\ pc = "loop"
    /\ LoopContinues(count, stop)
    /\ engine_calls' = engine_calls + 1
    /\ clock' = clock + 1
    /\ \/ \E tool_calls \in Responses, usage \in Usages :
            /\ response' = [tool_calls |-> tool_calls, usage |-> usage]
            /\ sql_query_generation_time' =
                   sql_query_generation_time + (clock' - query_gen_timer_start)
            /\ iteration_results' = <<>>
            /\ iteration_results_db' = <<>>
            /\ iteration_stop_signals' = <<>>
            /\ k' = 1
            /\ pc' = "exec"
            /\ UNCHANGED exc
       \/ /\ exc' = "APIConnectionError"
          /\ pc' = "except"
          /\ UNCHANGED <<response, k, roundVars, sql_query_generation_time>>
    /\ UNCHANGED <<pipeVars, connection, formatted_SQL_prompt, stop, count,
                   all_results, all_results_db, cost, results_bound, db,
                   error_log, returned>>
    /\ UNCHANGED <<auditVars, query_gen_timer_start,
                   sql_query_execution_time, relevant_tables_selection_time,
                   sessionVars, processes_info, callVars>>

\* lines 418-451: one pass of the for loop over tool_calls.  eval calls
\* whatever name the invocation carries; the call takes one tick, the
\* generation timer restarts right after it and the bookkeeping of lines
\* 434-451 takes one more tick
ExecuteToolCall ==
    /\ pc = "exec"
    /\ k <= Len(response.tool_calls)
    /\ LET tool_call == response.tool_calls[k] IN
       IF ~tool_call.valid \/ tool_call.name \notin DefinedFunctions
       THEN /\ exc' = IF ~tool_call.valid THEN "JSONDecodeError"
                      ELSE "NameError"
            /\ pc' = "except"
            /\ UNCHANGED <<k, roundVars, db, auditVars, clock,
                           query_gen_timer_start, sql_query_execution_time>>
       ELSE IF tool_call.name # "execute_sql_query"
       THEN /\ invoked' = invoked \cup {tool_call.name}
            /\ clock' = clock + 1
            /\ sql_query_execution_time' = sql_query_execution_time + 1
            /\ query_gen_timer_start' = clock + 1
            /\ exc' = "KeyError"
            /\ pc' = "except"
            /\ UNCHANGED <<k, roundVars, db, store_connect_failed>>
       ELSE \E connect_ok \in BOOLEAN :
            LET run == ExecuteSqlQuery(tool_call.sql_query, db, connect_ok) IN
            /\ invoked' = invoked \cup {tool_call.name}
            /\ store_connect_failed' = (store_connect_failed \/ ~connect_ok)
            /\ db' = run.db
            /\ clock' = clock + 2
            /\ sql_query_execution_time' = sql_query_execution_time + 1
            /\ query_gen_timer_start' = clock + 1
            /\ iteration_results_db' =
                   RecordEntry(iteration_results_db, tool_call.sql_query,
                               ToJson(run.result))
            /\ iteration_results' =
                   RecordEntry(iteration_results, tool_call.sql_query,
                               SerializableResult(run.result))
            /\ iteration_stop_signals' =
                   Append(iteration_stop_signals, StopSignal(tool_call))
            /\ k' = k + 1
            /\ UNCHANGED <<pc, exc>>
    /\ UNCHANGED <<pipeVars, connection, formatted_SQL_prompt, stop, count,
                   response, all_results, all_results_db, cost, engine_calls,
                   results_bound, error_log, returned>>
    /\ UNCHANGED <<sql_query_generation_time, relevant_tables_selection_time,
                   sessionVars, processes_info, callVars>>

\* lines 453-471: the round is appended, the stop flag and the cost are
\* set; one tick
EndRound ==
    /\ pc = "exec"
    /\ k > Len(response.tool_calls)
    /\ clock' = clock + 1
    /\ all_results_db' = Append(all_results_db, iteration_results_db)
    /\ all_results' = Append(all_results, iteration_results)
    /\ stop' = IF AnySignal(iteration_stop_signals) THEN TRUE ELSE stop
    /\ formatted_SQL_prompt' = Append(formatted_SQL_prompt,
                                      AssistantTurn(count, iteration_results))
    /\ cost' = RoundCost(cost, response.usage)
    /\ count' = count + 1
    /\ pc' = "loop"
    /\ UNCHANGED <<pipeVars, connection, exc, response, k, roundVars,
                   engine_calls, results_bound, db, error_log, returned>>
    /\ UNCHANGED <<auditVars, timeVars, sessionVars, processes_info, callVars>>

\* lines 476, 550-551 and the finally block: the loop is left and
\* sql_pipeline returns its six values
ReturnSession ==
    /\ pc = "loop"
    /\ ~LoopContinues(count, stop)
    /\ results_bound' = TRUE
    /\ returned' = [kind |-> "ok",
                    all_results_db |-> all_results_db,
                    all_results |-> all_results,
                    sql_query_generation_time |-> sql_query_generation_time,
                    sql_query_execution_time |-> sql_query_execution_time,
                    relevant_tables_selection_time |->
                        relevant_tables_selection_time,
                    rel_tables_check |-> rel_tables_check]
    /\ connection' = FinallyBlock(connection, processes_info).connection
    /\ processes_info' =
           FinallyBlock(connection, processes_info).processes_info
    /\ pc' = "returned"
    /\ UNCHANGED <<pipeVars, exc, loopVars, db, error_log>>
    /\ UNCHANGED <<auditVars, clock, timeVars, sessionVars, callVars>>

\* lines 553-572: the except block reads sql_pipeline's local all_results,
\* which is assigned only by line 550; reading it unassigned raises
\* UnboundLocalError out of the handler, and the finally block runs
ErrorHandler ==
    /\ pc = "except"
    /\ error_log' = WriteErrorLog(error_log,
                       [user_input |-> user_input, results |-> all_results,
                        error |-> exc],
                       results_bound)
    /\ IF results_bound
       THEN /\ returned' = [kind |-> "sentinel", first |-> "None",
                            second |-> 0]
            /\ exc' = "none"
            /\ pc' = "returned"
       ELSE /\ exc' = "UnboundLocalError"
            /\ returned' = [kind |-> "exception"]
            /\ pc' = "raised"
    /\ connection' = FinallyBlock(connection, processes_info).connection
    /\ processes_info' =
           FinallyBlock(connection, processes_info).processes_info
    /\ UNCHANGED <<pipeVars, loopVars, results_bound, db>>
    /\ UNCHANGED <<auditVars, clock, timeVars, sessionVars, callVars>>

Next ==
    \/ Connect
    \/ GetRelevantTables
    \/ Assemble
    \/ Generate(PipelineResponses, PipelineUsages)
    \/ ExecuteToolCall
    \/ EndRound
    \/ ReturnSession
    \/ ErrorHandler

Spec == Init /\ [][Next]_vars

\* the loop on its own: the caller supplies the table and the responses
\* carry up to MaxCalls invocations
LoopInit == Init /\ user_input = "q1" /\ rel_tables = <<"sales">>

LoopNext ==
    \/ Connect
    \/ Assemble
    \/ Generate(LoopResponses, LoopUsages)
    \/ ExecuteToolCall
    \/ EndRound
    \/ ReturnSession
    \/ ErrorHandler

LoopSpec == LoopInit /\ [][LoopNext]_vars

\* the loop with responses of several different invocations
RoundNext ==
    \/ Connect
    \/ Assemble
    \/ Generate(RoundResponses, LoopUsages)
    \/ ExecuteToolCall
    \/ EndRound
    \/ ReturnSession
    \/ ErrorHandler

RoundSpec == LoopInit /\ [][RoundNext]_vars

\* --------------------------------------------- two concurrent sessions
\* Two calls of the pipeline with different questions run interleaved:
\* each has its own locals (sessions[s]), they share the module-level
\* prompt templates (heap) and the relational store (db).  A round is one
\* step: one invocation, executed and folded back.
SessionTables == [s \in Sessions |-> IF s = "s1" THEN <<"sales">> ELSE <<>>]
SessionToolCalls ==
    {ToolCall("execute_sql_query", TRUE, q, s) :
        q \in {"SELECT", "INSERT"}, s \in {"true", "false"}}

\* an assignment without copy: the session works on the module's list
AliasOf(ref, s) == ref

\* copy.deepcopy: the list object the session works on is its own
DeepCopy(ref, s) == <<s, ref[2]>>

\* str.format: placeholders are filled; a text without placeholders is
\* returned as it is
Format(content, args) ==
    IF content.filled THEN content
    ELSE [text |-> content.text, filled |-> TRUE, args |-> args]

singleVars == <<pc, exc, pipeVars, connection, loopVars, results_bound,
                error_log, returned, auditVars, clock, timeVars,
                processes_info, callVars>>

\* get_relevant_tables lines 155-159
SessionRelevance(s) ==
    /\ sessions[s].pc = "start"
    /\ LET ref == DeepCopy(ModuleRef("TABLE_IDENTIFIER_PROMPT"), s)
           copied == [heap EXCEPT
                        ![ref] = heap[ModuleRef("TABLE_IDENTIFIER_PROMPT")]]
       IN  heap' = [copied EXCEPT ![ref][2].content =
                        Format(copied[ref][2].content, <<SessionQuestion[s]>>)]
    /\ sessions' = [sessions EXCEPT ![s].pc = "assemble"]
    /\ UNCHANGED <<singleVars, db>>

\* generate_sql_query_multi_tables lines 372-391
SessionAssemble(s) ==
    /\ sessions[s].pc = "assemble"
    /\ LET ref == DeepCopy(ModuleRef("SQL_QUERY_GENERATION_PROMPT"), s)
           copied == [heap EXCEPT
                        ![ref] = heap[ModuleRef("SQL_QUERY_GENERATION_PROMPT")]]
       IN  /\ heap' = [copied EXCEPT
                         ![ref][1].content =
                             Format(copied[ref][1].content, <<SessionTables[s]>>),
                         ![ref][2].content =
                             Format(copied[ref][2].content, <<SessionQuestion[s]>>)]
           /\ sessions' = [sessions EXCEPT ![s].pc = "loop",
                                           ![s].prompt = ref,
                                           ![s].all_results = <<>>]
    /\ UNCHANGED <<singleVars, db>>

\* lines 392-471 for a response of one invocation
SessionRound(s) ==
    /\ sessions[s].pc = "loop"
    /\ LoopContinues(sessions[s].count, sessions[s].stop)
    /\ \E tool_call \in SessionToolCalls :
         LET run == ExecuteSqlQuery(tool_call.sql_query, db, TRUE)
             round == <<[sql_query |-> tool_call.sql_query,
                         result |-> SerializableResult(run.result)]>>
         IN  /\ db' = run.db
             /\ heap' = [heap EXCEPT ![sessions[s].prompt] =
                            Append(@, AssistantTurn(sessions[s].count, round))]
             /\ sessions' = [sessions EXCEPT
                    ![s].all_results = Append(@, round),
                    ![s].stop = IF AnySignal(<<StopSignal(tool_call)>>)
                                THEN TRUE ELSE @,
                    ![s].count = @ + 1]
    /\ UNCHANGED singleVars

\* line 476
SessionReturn(s) ==
    /\ sessions[s].pc = "loop"
    /\ ~LoopContinues(sessions[s].count, sessions[s].stop)
    /\ sessions' = [sessions EXCEPT ![s].pc = "done"]
    /\ UNCHANGED <<singleVars, db, heap>>

SessionsInit == Init /\ user_input = "q1" /\ rel_tables = <<"sales">>

SessionsNext ==
    \/ \E s \in Sessions : SessionRelevance(s)
    \/ \E s \in Sessions : SessionAssemble(s)
    \/ \E s \in Sessions : SessionRound(s)
    \/ \E s \in Sessions : SessionReturn(s)

SessionsSpec == SessionsInit /\ [][SessionsNext]_vars

\* ------------------------------------------- functions called on their own
pipelineVars == <<pc, exc, pipeVars, connection, loopVars, results_bound,
                  error_log, returned, auditVars, clock, timeVars,
                  processes_info, db, sessionVars>>

\* the pipeline is idle while one function is called on its own
IdlePipeline ==
    /\ PipelineInit
    /\ user_input = "q1"
    /\ rel_tables = <<"sales">>
    /\ processes_info = "absent"

\* entries of the YAML library: with a relevant_tables list, with an empty
\* one, and without the key
LibraryExamples ==
    {[question |-> "e_sales", sql_query |-> "x1",
      relevant_tables |-> <<"sales">>],
     [question |-> "e_both", sql_query |-> "x2",
      relevant_tables |-> <<"sales", "orders">>],
     [question |-> "e_empty", sql_query |-> "x3", relevant_tables |-> <<>>],
     [question |-> "e_nokey", sql_query |-> "x4"]}

\* what open and yaml.safe_load make of the path: a list of examples, an
\* empty document, no such file, a file that cannot be opened, or text
\* that is not YAML
Libraries ==
    {[file |-> "ok", examples |-> e] : e \in SeqsUpTo(LibraryExamples, MaxExamples)}
    \cup {[file |-> f, examples |-> <<>>] :
             f \in {"empty", "missing", "unreadable", "malformed"}}

TargetTables ==
    {<<>>, <<"sales">>, <<"orders">>, <<"orders", "sales">>,
     <<"sales", "sales">>}

ExampleCalls ==
    {[function |-> "get_relevant_examples", sql_examples_path |-> l,
      target_relevant_tables |-> t] : l \in Libraries, t \in TargetTables}

\* example.get("relevant_tables", [])
RelevantTablesOf(example) ==
    IF "relevant_tables" \in DOMAIN example
    THEN Range(example.relevant_tables) ELSE {}

\* line 267: the example without its relevant_tables key
WithoutRelevantTables(example) ==
    [key \in DOMAIN example \ {"relevant_tables"} |-> example[key]]

\* lines 260-270
FilterExamples(examples, target_relevant_tables) ==
    LET Kept(example) ==
            RelevantTablesOf(example) \subseteq Range(target_relevant_tables)
        filtered == SelectSeq(examples, Kept)
    IN  [i \in 1..Len(filtered) |-> WithoutRelevantTables(filtered[i])]

\* lines 253-270: FileNotFoundError and YAMLError are caught; any other
\* error of open (PermissionError) leaves the function
get_relevant_examples(sql_examples_path, target_relevant_tables) ==
    CASE sql_examples_path.file \in {"missing", "malformed"} ->
            [kind |-> "return", value |-> <<>>]
      [] sql_examples_path.file = "unreadable" ->
            [kind |-> "raise", value |-> "PermissionError"]
      [] OTHER ->
            [kind |-> "return",
             value |-> FilterExamples(sql_examples_path.examples,
                                      target_relevant_tables)]

GetRelevantExamples ==
    /\ call.function = "get_relevant_examples"
    /\ outcome = NoOutcome
    /\ outcome' = get_relevant_examples(call.sql_examples_path,
                                        call.target_relevant_tables)
    /\ UNCHANGED <<pipelineVars, call>>

ExamplesInit == IdlePipeline /\ call \in ExampleCalls /\ outcome = NoOutcome

ExamplesSpec == ExamplesInit /\ [][GetRelevantExamples]_vars

\* the states of the metadata store: per table, the schema lookup finds
\* the row, finds none or raises; the description row is there or not;
\* the query for the descriptions succeeds or raises
MetadataStores ==
    {[schema |-> sc, description |-> d, comments_ok |-> ok] :
        sc \in [TableNames -> {"present", "missing", "error"}],
        d \in [TableNames -> {"present", "missing"}],
        ok \in BOOLEAN}

SelectedTables == {<<>>} \cup SeqsUpTo({"sales", "orders"}, 2)

ContextCalls ==
    {[function |-> "table_details", rel_tables |-> t, store |-> m] :
        t \in SelectedTables,
        m \in {n \in MetadataStores :
                 n.schema[Hallucinated] = "missing"
                 /\ n.description[Hallucinated] = "missing"}}

AssembleContext ==
    /\ call.function = "table_details"
    /\ outcome = NoOutcome
    /\ outcome' = [kind |-> "return",
                   value |-> table_details(call.rel_tables, call.store)]
    /\ UNCHANGED <<pipelineVars, call>>

ContextInit == IdlePipeline /\ call \in ContextCalls /\ outcome = NoOutcome

ContextSpec == ContextInit /\ [][AssembleContext]_vars

\* frames of up to MaxColumns columns and MaxRows rows; a frame without
\* columns can still have rows (pd.DataFrame(index=...))
ColumnNames == <<"a", "b", "c", "d">>
DataFrames ==
    {[columns |-> SubSeq(ColumnNames, 1, c), rows |-> r] :
        c \in 0..MaxColumns, r \in {<<>>}}
    \cup UNION {{[columns |-> SubSeq(ColumnNames, 1, c), rows |-> r] :
                   r \in SeqsUpTo([1..c -> {"x", "y"}], MaxRows)} :
               c \in 0..MaxColumns}

FormatCalls ==
    {[function |-> "format_dataframe", data |-> d, row_separator |-> rs,
      col_separator |-> cs, add_headers |-> h, add_indices |-> x] :
        d \in DataFrames, rs \in {"\n", ";"}, cs \in {"\t", ","},
        h \in BOOLEAN, x \in BOOLEAN}

FormatDataframe ==
    /\ call.function = "format_dataframe"
    /\ outcome = NoOutcome
    /\ outcome' = [kind |-> "return",
                   value |-> format_dataframe(call.data, call.row_separator,
                                              call.col_separator,
                                              call.add_headers,
                                              call.add_indices)]
    /\ UNCHANGED <<pipelineVars, call>>

FormatInit == IdlePipeline /\ call \in FormatCalls /\ outcome = NoOutcome

FormatSpec == FormatInit /\ [][FormatDataframe]_vars

\* the loop called with or without a progress object
ReleaseInit ==
    /\ PipelineInit
    /\ user_input = "q1"
    /\ rel_tables = <<"sales">>
    /\ processes_info \in {"absent", "given"}
    /\ call = NoCall
    /\ outcome = NoOutcome

ReleaseSpec == ReleaseInit /\ [][RoundNext]_vars

\* the loop under the scheduling of a sequential program: a step that can
\* be taken is taken
FairLoopSpec == LoopSpec /\ WF_vars(LoopNext)

\* ----------------------------------------------------------------- claims
Terminal == pc \in {"returned", "raised"}
LastRound == all_results[Len(all_results)]
SomeStopFlag(tool_calls) ==
    \E i \in 1..Len(tool_calls) : tool_calls[i].stop = "true"

\* C1: in every reachable state the transcript (all_results and
\* all_results_db) holds at most 5 rounds, whatever the engine returns.
C1_RoundsAtMostFive ==
    Len(all_results) <= 5 /\ Len(all_results_db) <= 5

C1_Witness == pc = "returned" /\ Len(all_results) = 5

\* C2: the loop halts; a session without a stop flag and without a hard
\* failure makes exactly 5 engine calls, appends exactly 5 rounds and
\* returns; a session that returns successfully has 1 to 5 rounds.
C2_Returned ==
    /\ (pc = "returned" /\ returned.kind = "ok")
          => (Len(all_results) >= 1 /\ Len(all_results) <= 5)
    /\ (pc = "returned" /\ ~stop)
          => (engine_calls = 5 /\ Len(all_results) = 5
              /\ Len(all_results_db) = 5)
    /\ (pc = "loop" /\ ~stop /\ count > 5) => engine_calls = 5

C2_LoopHalts == []C2_Returned /\ <>Terminal

C2_Witness ==
    pc = "returned" /\ ~stop /\ engine_calls = 5 /\ Len(all_results) = 5

\* C3: the stop policy is the OR of the flags of the round: a round with a
\* stop flag at any position is executed and recorded in full and appended,
\* and no engine call follows it; after a round without a stop flag and
\* with fewer than 5 rounds the next step is another engine call.
C3_RoundAppended ==
    (pc = "loop" /\ all_results # <<>>) =>
        /\ Len(LastRound) = Len(response.tool_calls)
        /\ \A i \in 1..Len(LastRound) :
              LastRound[i].sql_query = response.tool_calls[i].sql_query
        /\ stop = SomeStopFlag(response.tool_calls)

C3_Step ==
    /\ stop => engine_calls' = engine_calls
    /\ (pc = "loop" /\ ~stop /\ Len(all_results) < 5)
          => (engine_calls' = engine_calls + 1
              /\ pc' \in {"exec", "except"})
    /\ (pc = "exec" /\ k <= Len(response.tool_calls))
          => (pc' = "exec" /\ k' = k + 1
              /\ Len(iteration_results') = Len(iteration_results) + 1)

C3_StopIsOrOfFlags == []C3_RoundAppended /\ [][C3_Step]_vars

C3_Witness ==
    /\ pc = "returned"
    /\ Len(all_results) = 2
    /\ Len(LastRound) = 3
    /\ response.tool_calls[1].stop = "false"
    /\ response.tool_calls[2].stop = "true"
    /\ response.tool_calls[3].stop = "false"

\* C4: no exception reaches the caller of sql_pipeline; every hard failure
\* ends in the failure sentinel.
C4_NoExceptionReachesCaller ==
    /\ returned.kind # "exception"
    /\ pc # "raised"

\* C5: on a hard failure inside the pipeline (the connection of
\* sql_pipeline was opened and has been closed by the finally block) the
\* returned session is null and the diagnostic log has gained exactly one
\* record, which holds the question.
C5_HardFailureLogged ==
    (Terminal /\ connection = "closed" /\ returned.kind # "ok") =>
        /\ returned.kind = "sentinel"
        /\ Len(error_log) = 2
        /\ error_log[1] = EarlierRecord
        /\ error_log[2].user_input = user_input

\* C6: the table set the relevance step hands to the dispatch loop is a
\* subset of the catalog table names.
C6_SelectedTablesInCatalog ==
    (rel_tables_check /\ pc \in {"assemble", "loop", "exec", "returned"}) =>
        \A i \in 1..Len(rel_tables) : rel_tables[i] \in Catalog

\* C7: the cost held by the dispatch loop never decreases from one round
\* to the next.
C7_CostMonotone == [][cost' >= cost]_vars

\* C8: a query whose execution raises does not raise to the loop and
\* yields the empty result; the invocation is recorded with that empty
\* result in both transcripts and, without a stop flag and with fewer than
\* 5 rounds, the next step is the engine call of the next round.
FailedQuery(entry) == entry.sql_query = "BAD"
HasFailedQuery(round) == \E i \in 1..Len(round) : FailedQuery(round[i])
EmptyWhereFailed(round) ==
    \A i \in 1..Len(round) : FailedQuery(round[i]) => round[i].result = <<>>

C8_Recorded ==
    /\ \A r \in 1..Len(all_results) : EmptyWhereFailed(all_results[r])
    /\ \A r \in 1..Len(all_results_db) : EmptyWhereFailed(all_results_db[r])
    /\ EmptyWhereFailed(iteration_results)
    /\ EmptyWhereFailed(iteration_results_db)

C8_Step ==
    /\ (/\ pc = "exec" /\ k <= Len(response.tool_calls)
        /\ response.tool_calls[k] \in
              {ToolCall("execute_sql_query", TRUE, "BAD", s) : s \in StopValues})
          => /\ pc' = "exec" /\ exc' = "none"
             /\ Len(iteration_results') = k
             /\ FailedQuery(iteration_results'[k])
             /\ FailedQuery(iteration_results_db'[k])
    /\ (/\ pc = "exec" /\ k > Len(response.tool_calls)
        /\ HasFailedQuery(iteration_results))
          => /\ pc' = "loop"
             /\ all_results' = Append(all_results, iteration_results)
    /\ (/\ pc = "loop" /\ all_results # <<>> /\ HasFailedQuery(LastRound)
        /\ ~SomeStopFlag(response.tool_calls) /\ Len(all_results) < 5)
          => /\ pc' \in {"exec", "except"}
             /\ engine_calls' = engine_calls + 1

C8_SoftFailureContinues == []C8_Recorded /\ [][C8_Step]_vars

C8_Witness ==
    /\ pc = "exec"
    /\ engine_calls = 2
    /\ Len(all_results) = 1
    /\ HasFailedQuery(all_results[1])
    /\ all_results[1][1].result = <<>>

\* C9: the contents of the relational store after execute_sql_query
\* returns are the same as before the call, for every query text.
C9_StoreNeverWritten == [][db' = db]_vars

\* C10 as stated: with an empty table set from the relevance step the loop
\* terminates after exactly one round with an empty result.
EmptySelection == rel_tables_check /\ rel_tables = <<>>
SuccessfulReturn == pc = "returned" /\ returned.kind = "ok"

C10_EmptySelectionOneRound ==
    (EmptySelection /\ SuccessfulReturn) =>
        /\ Len(all_results) = 1
        /\ \A i \in 1..Len(all_results[1]) : all_results[1][i].result = <<>>

\* C10 amended: with an empty table set from the relevance step the
\* pipeline proceeds (only an unreachable metadata store stops the context
\* assembly) and the loop follows the usual stop policy: a session that
\* returns has 1 to 5 rounds, and fewer than 5 only when the last round
\* carries a stop flag.
C10_State ==
    /\ (EmptySelection /\ SuccessfulReturn) =>
          /\ Len(all_results) >= 1 /\ Len(all_results) <= 5
          /\ Len(all_results) < 5 => SomeStopFlag(response.tool_calls)
    /\ (EmptySelection /\ pc = "loop" /\ all_results = <<>>) =>
          /\ exc = "none"
          /\ formatted_SQL_prompt[1].content = <<>>

C10_Step ==
    (EmptySelection /\ pc = "assemble" /\ pc' = "except")
        => exc' = "OperationalError"

C10_EmptySelectionUsualPolicy == []C10_State /\ [][C10_Step]_vars

C10_Witness ==
    /\ EmptySelection /\ SuccessfulReturn
    /\ Len(all_results) = 3
    /\ all_results[2][1].result # <<>>

\* C11: a relational-store connection failure during a query execution is
\* a hard failure: the session is aborted, no later round is generated and
\* the sentinel is returned.
C11_ConnectFailureAborts ==
    [][store_connect_failed' =>
          /\ pc' \in {"except", "returned", "raised"}
          /\ engine_calls' = engine_calls
          /\ returned'.kind \in {"none", "sentinel"}]_vars

\* C12: with the metadata store unreachable when the catalog is fetched,
\* no relevance request goes to the engine with an empty catalog.
C12_NoRequestWithEmptyCatalog ==
    \A i \in 1..Len(relevance_requests) : relevance_requests[i] # {}

\* C13: on success the returned value holds the rounds, the selected
\* tables, the generation time, the execution time, the cost and the
\* selection latency; on failure it is the sentinel in the same shape, a
\* null session and a zero for each metric.
SuccessFields ==
    {"kind", "all_results", "rel_tables", "sql_query_generation_time",
     "sql_query_execution_time", "cost", "relevant_tables_selection_time"}

C13_ResultShape ==
    /\ returned.kind = "ok" =>
          /\ SuccessFields \subseteq DOMAIN returned
          /\ returned.all_results = all_results
          /\ returned.rel_tables = rel_tables
          /\ returned.cost = cost
    /\ (Terminal /\ returned.kind # "ok") =>
          /\ returned.kind = "sentinel"
          /\ SuccessFields \subseteq DOMAIN returned
          /\ returned.sql_query_generation_time = 0
          /\ returned.sql_query_execution_time = 0
          /\ returned.cost = 0

\* C14: the only function the loop ever invokes for a tool invocation is
\* execute_sql_query, whatever name and arguments the invocation carries.
C14_OnlyQueryExecutorInvoked == invoked \subseteq {"execute_sql_query"}

\* C15: two interleaved sessions with different questions do not interfere:
\* the message lists and the rounds of a session hold only its own
\* question, context and results, a step of one session leaves the other
\* session's lists and rounds as they were, and the module-level prompt
\* templates are never changed.
OwnRefs(s) == {s} \X TemplateNames

C15_Sessions ==
    /\ heap[ModuleRef("TABLE_IDENTIFIER_PROMPT")] = TABLE_IDENTIFIER_PROMPT
    /\ heap[ModuleRef("SQL_QUERY_GENERATION_PROMPT")]
          = SQL_QUERY_GENERATION_PROMPT
    /\ \A s \in Sessions :
          /\ sessions[s].pc # "start" =>
                heap[<<s, "TABLE_IDENTIFIER_PROMPT">>][2].content.args
                    = <<SessionQuestion[s]>>
          /\ sessions[s].pc \in {"loop", "done"} =>
                LET prompt == heap[sessions[s].prompt] IN
                /\ sessions[s].prompt \in OwnRefs(s)
                /\ prompt[1].content.args = <<SessionTables[s]>>
                /\ prompt[2].content.args = <<SessionQuestion[s]>>
                /\ Len(prompt) = 2 + Len(sessions[s].all_results)
                /\ \A r \in 1..Len(sessions[s].all_results) :
                      prompt[2 + r].content =
                          [iteration_number |-> r,
                           iteration_results |-> sessions[s].all_results[r]]

C15_Step ==
    \A s \in Sessions :
        sessions'[s] # sessions[s] =>
            \A t \in Sessions \ {s} :
                /\ sessions'[t] = sessions[t]
                /\ \A ref \in OwnRefs(t) : heap'[ref] = heap[ref]

C15_SessionsIndependent == []C15_Sessions /\ [][C15_Step]_vars

C15_Witness ==
    /\ sessions["s1"].pc = "done"
    /\ sessions["s2"].pc = "loop"
    /\ Len(sessions["s1"].all_results) = 2
    /\ Len(sessions["s2"].all_results) = 2
    /\ sessions["s2"].all_results[2][1].result # <<>>

\* C16: once the session is terminated (a round with a stop flag has been
\* appended, 5 rounds exist, or a hard failure is in flight or raised)
\* there is no further engine call, no further query execution and no
\* further round.
SessionTerminated ==
    \/ pc \in {"except", "returned", "raised"}
    \/ /\ pc = "loop"
       /\ all_results # <<>>
       /\ (SomeStopFlag(response.tool_calls) \/ Len(all_results) = 5)

C16_NothingAfterTermination ==
    [][SessionTerminated =>
          /\ engine_calls' = engine_calls
          /\ all_results' = all_results
          /\ all_results_db' = all_results_db
          /\ formatted_SQL_prompt' = formatted_SQL_prompt
          /\ iteration_results' = iteration_results
          /\ invoked' = invoked
          /\ db' = db
          /\ SessionTerminated']_vars

C16_Witness ==
    /\ pc = "returned"
    /\ Len(all_results) = 2
    /\ SomeStopFlag(response.tool_calls)
    /\ engine_calls = 2

\* C17: the diagnostic log only grows at its end: no step removes,
\* truncates or rewrites a record, and a run that succeeds leaves the log
\* as it was.
IsPrefix(a, b) == Len(a) <= Len(b) /\ SubSeq(b, 1, Len(a)) = a

C17_LogAppendOnly ==
    /\ [][IsPrefix(error_log, error_log')]_vars
    /\ [](returned.kind = "ok" => error_log = <<EarlierRecord>>)
    /\ [](error_log # <<>> /\ error_log[1] = EarlierRecord)

C17_Witness ==
    /\ pc = "raised"
    /\ connection = "closed"
    /\ engine_calls = 2
    /\ error_log = <<EarlierRecord>>

\* C19: after a hard failure in round k >= 2 the diagnostic record holds
\* the completed rounds 1..k-1 together with the question.
C19_PartialRoundsLogged ==
    (Terminal /\ returned.kind # "ok" /\ Len(all_results) >= 1) =>
        /\ Len(error_log) = 2
        /\ error_log[2].results = all_results
        /\ error_log[2].user_input = user_input

\* C20: the message list sent in round N is the two initial messages,
\* unchanged, followed by one assistant turn per earlier round, in order,
\* numbered 1..N-1 and carrying that round's results; the list only grows
\* at its end, and the request of a round is sent only when every
\* invocation of the round before is executed and its turn appended.
C20_Transcript ==
    (pc \in {"loop", "exec"} \/ returned.kind = "ok") =>
        /\ Len(formatted_SQL_prompt) = 2 + Len(all_results)
        /\ formatted_SQL_prompt[1] =
              [role |-> "system", content |-> TableDetails(rel_tables)]
        /\ formatted_SQL_prompt[2] =
              [role |-> "user", content |-> user_input]
        /\ \A r \in 1..Len(all_results) :
              formatted_SQL_prompt[2 + r] =
                  [role |-> "assistant",
                   content |-> [iteration_number |-> r,
                                iteration_results |-> all_results[r]]]
        /\ pc = "exec" => engine_calls = Len(all_results) + 1
        /\ pc = "loop" => engine_calls = Len(all_results)

C20_Step ==
    /\ formatted_SQL_prompt # <<>>
          => IsPrefix(formatted_SQL_prompt, formatted_SQL_prompt')
    /\ engine_calls' # engine_calls =>
          /\ pc = "loop"
          /\ engine_calls' = engine_calls + 1
          /\ formatted_SQL_prompt' = formatted_SQL_prompt
          /\ Len(formatted_SQL_prompt) = 1 + engine_calls'
          /\ all_results # <<>> =>
                /\ k > Len(response.tool_calls)
                /\ Len(LastRound) = Len(response.tool_calls)

C20_TranscriptAppendOnly == []C20_Transcript /\ [][C20_Step]_vars

C20_Witness ==
    /\ pc = "exec"
    /\ engine_calls = 3
    /\ Len(formatted_SQL_prompt) = 4
    /\ formatted_SQL_prompt[4].content.iteration_number = 2
    /\ formatted_SQL_prompt[4].content.iteration_results[1].result # <<>>

\* C21: every appended round holds one entry per invocation of the engine
\* response of that round, in the engine's order and with the invocation's
\* query text; all_results_db and all_results have the same number of
\* rounds, the same number of entries per round and the same query at
\* every position; an appended round is never changed.
SameQueries(round, tool_calls) ==
    /\ Len(round) = Len(tool_calls)
    /\ \A i \in 1..Len(round) : round[i].sql_query = tool_calls[i].sql_query

SameShape(round_db, round) ==
    /\ Len(round_db) = Len(round)
    /\ \A i \in 1..Len(round) : round_db[i].sql_query = round[i].sql_query

C21_Transcripts ==
    /\ Len(all_results_db) = Len(all_results)
    /\ \A r \in 1..Len(all_results) : SameShape(all_results_db[r], all_results[r])
    /\ SameShape(iteration_results_db, iteration_results)

C21_Step ==
    /\ IsPrefix(all_results, all_results')
    /\ IsPrefix(all_results_db, all_results_db')
    /\ all_results' # all_results =>
          /\ Len(all_results') = Len(all_results) + 1
          /\ SameQueries(all_results'[Len(all_results')], response.tool_calls)
          /\ SameQueries(all_results_db'[Len(all_results')],
                         response.tool_calls)

C21_RoundsMatchInvocations == []C21_Transcripts /\ [][C21_Step]_vars

C21_Witness ==
    /\ pc = "loop"
    /\ Len(all_results) = 2
    /\ Len(all_results[1]) = 2
    /\ all_results[1][1].sql_query = "INSERT"
    /\ all_results[1][2].sql_query = "SELECT"
    /\ all_results[2][1].sql_query = "SELECT"
    /\ all_results[2][2].sql_query = "BAD"

\* C22: get_relevant_examples returns exactly the library examples whose
\* required tables are all among the target tables (an example without
\* required tables is always kept), in library order and each without its
\* relevant_tables field; a library that is missing or cannot be read
\* gives the empty list, never a failure.
KeptIndices(examples, tables) ==
    {i \in 1..Len(examples) :
        \A t \in (IF "relevant_tables" \in DOMAIN examples[i]
                   THEN Range(examples[i].relevant_tables) ELSE {}) :
            t \in Range(tables)}

NthKept(examples, tables, n) ==
    CHOOSE i \in KeptIndices(examples, tables) :
        Cardinality({j \in KeptIndices(examples, tables) : j <= i}) = n

C22_ExamplesFiltered ==
    (call.function = "get_relevant_examples" /\ outcome # NoOutcome) =>
        LET library == call.sql_examples_path
            tables == call.target_relevant_tables
            kept == KeptIndices(library.examples, tables)
        IN  /\ outcome.kind = "return"
            /\ library.file # "ok" => outcome.value = <<>>
            /\ library.file = "ok" =>
                  /\ Len(outcome.value) = Cardinality(kept)
                  /\ \A n \in 1..Len(outcome.value) :
                        LET source == library.examples[
                                NthKept(library.examples, tables, n)]
                        IN  /\ DOMAIN outcome.value[n] =
                                  {"question", "sql_query"}
                            /\ outcome.value[n].question = source.question
                            /\ outcome.value[n].sql_query = source.sql_query

\* C23: the context holds exactly one block per selected table, in
\* selection order; a table whose schema row is missing or whose schema
\* lookup fails, or whose description cannot be fetched, has the
\* placeholder at that place of its block, every other field of every
\* block is the text of the metadata store, and the assembly returns.
C23_OneBlockPerTable ==
    (call.function = "table_details" /\ outcome # NoOutcome) =>
        LET tables == call.rel_tables
            blocks == outcome.value
        IN  /\ outcome.kind = "return"
            /\ Len(blocks) = Len(tables)
            /\ \A i \in 1..Len(tables) :
                  /\ blocks[i].table_name = tables[i]
                  /\ blocks[i].table_schema =
                        IF call.store.schema[tables[i]] = "present"
                        THEN SchemaText(tables[i])
                        ELSE "No schema available."
                  /\ blocks[i].table_description =
                        IF call.store.comments_ok
                           /\ call.store.description[tables[i]] = "present"
                        THEN DescriptionText(tables[i])
                        ELSE "No description available."

C23_Witness ==
    /\ call.function = "table_details"
    /\ outcome # NoOutcome
    /\ call.rel_tables = <<"orders", "sales">>
    /\ call.store.schema["orders"] = "error"
    /\ outcome.value[1].table_schema = "No schema available."
    /\ outcome.value[2].table_schema = "schema of sales"
    /\ outcome.value[1].table_description = "description of orders"
    /\ outcome.value[2].table_description = "No description available."

\* C24: on the logical clock every engine call of the loop takes one tick
\* and every call of the query executor takes one tick.  The accumulated
\* generation time is the time of the engine calls alone (from the start
\* of a round's engine call to just before its first execution) and the
\* accumulated execution time is the time inside the executor calls; no
\* tick of context assembly or of result bookkeeping is generation time.
ExecutorCalls ==
    Len(iteration_results_db)
    + (IF all_results_db = <<>> THEN 0
       ELSE LET Sum[r \in 0..Len(all_results_db)] ==
                    IF r = 0 THEN 0
                    ELSE Sum[r - 1] + Len(all_results_db[r])
            IN  Sum[Len(all_results_db)])

C24_TimesSeparated ==
    pc = "exec" =>
        /\ sql_query_generation_time = engine_calls
        /\ sql_query_execution_time = ExecutorCalls

\* C25: format_dataframe returns the empty string for a frame without
\* columns.  For C >= 1 columns and R rows the text is, token by token:
\* the header line when add_headers is true, then the R data lines, with
\* the row separator between consecutive lines and nowhere else; data
\* line i holds the C cells of row i in column order with the column
\* separator between them, after the row index and a column separator
\* when add_indices is true.
C25_Format ==
    (call.function = "format_dataframe" /\ outcome # NoOutcome) =>
        LET data == call.data
            text == outcome.value
            C == Len(data.columns)
            R == Len(data.rows)
            H == IF call.add_headers THEN 1 ELSE 0
            X == IF call.add_indices THEN 1 ELSE 0
            header_width == 2 * C - 1 + X
            line_width == 2 * C - 1 + 2 * X
            LineStart(i) == H * (header_width + 1) + (i - 1) * (line_width + 1)
        IN  IF C = 0 THEN text = <<>>
            ELSE
            /\ Len(text) = IF H + R = 0 THEN 0
                           ELSE H * header_width + R * line_width + H + R - 1
            /\ H = 1 =>
                  /\ X = 1 => text[1] = call.col_separator
                  /\ \A c \in 1..C : text[X + 2 * c - 1] = data.columns[c]
                  /\ \A c \in 1..(C - 1) :
                        text[X + 2 * c] = call.col_separator
            /\ \A i \in 1..R :
                  /\ LineStart(i) > 0 =>
                        text[LineStart(i)] = call.row_separator
                  /\ X = 1 =>
                        /\ text[LineStart(i) + 1] = IndexStr(i - 1)
                        /\ text[LineStart(i) + 2] = call.col_separator
                  /\ \A c \in 1..C :
                        text[LineStart(i) + 2 * X + 2 * c - 1]
                            = data.rows[i][c]
                  /\ \A c \in 1..(C - 1) :
                        text[LineStart(i) + 2 * X + 2 * c]
                            = call.col_separator

C25_Witness ==
    /\ call.function = "format_dataframe"
    /\ call.add_headers /\ call.add_indices
    /\ call.data.rows = <<<<"x", "y">>, <<"y", "x">>>>
    /\ outcome.kind = "return"
    /\ outcome.value =
          <<call.col_separator, "a", call.col_separator, "b",
            call.row_separator,
            "0", call.col_separator, "x", call.col_separator, "y",
            call.row_separator,
            "1", call.col_separator, "y", call.col_separator, "x">>

\* C26: the relevance step runs exactly when the caller supplies no
\* tables.  With a non-empty rel_tables no relevance request is sent, the
\* tables reach the loop unchanged, the selection latency is 0 and
\* rel_tables_check is false; with rel_tables missing or empty exactly one
\* relevance request is sent and rel_tables_check is true.
PastSelection == pc \in {"assemble", "loop", "exec", "returned"}

C26_State ==
    /\ Len(relevance_requests) <= 1
    /\ PastSelection =>
          /\ rel_tables_check <=> Len(relevance_requests) = 1
          /\ ~rel_tables_check =>
                /\ rel_tables \notin {NoneTables, <<>>}
                /\ relevant_tables_selection_time = 0
    /\ returned.kind = "ok" =>
          /\ returned.rel_tables_check = rel_tables_check
          /\ returned.relevant_tables_selection_time
                = relevant_tables_selection_time

C26_Step ==
    /\ relevance_requests' # relevance_requests =>
          /\ rel_tables \in {NoneTables, <<>>}
          /\ relevance_requests = <<>>
    /\ rel_tables' # rel_tables =>
          /\ rel_tables \in {NoneTables, <<>>}
          /\ relevance_requests' # relevance_requests
          /\ rel_tables_check'
    /\ (pc = "start" /\ pc' = "assemble")
          => rel_tables \notin {NoneTables, <<>>}
    /\ (pc = "start" /\ pc' = "relevance")
          => rel_tables \in {NoneTables, <<>>}
    /\ (pc = "relevance" /\ pc' = "assemble") => rel_tables_check'

C26_SelectorRunsWhenNoTables == []C26_State /\ [][C26_Step]_vars

C26_Witness ==
    /\ returned.kind = "ok"
    /\ returned.rel_tables_check
    /\ Len(relevance_requests) = 1
    /\ rel_tables = <<"sales">>
    /\ relevant_tables_selection_time > 0

\* C27: once sql_pipeline has opened its connection, the connection is
\* closed and the progress entry, when one was given, is marked complete
\* by the time sql_pipeline returns or raises, on the successful path and
\* on the path through the error handler alike.
C27_Released ==
    (Terminal /\ connection # "none") =>
        /\ connection = "closed"
        /\ processes_info \in {"absent", "done"}

C27_Step ==
    /\ connection = "closed" => connection' = "closed"
    /\ processes_info = "done" => processes_info' = "done"
    /\ (connection = "open" /\ pc' \in {"returned", "raised"})
          => connection' = "closed"

C27_ResourcesReleased == []C27_Released /\ [][C27_Step]_vars

C27_Witness ==
    /\ pc = "raised"
    /\ exc = "UnboundLocalError"
    /\ connection = "closed"
    /\ processes_info = "done"
    /\ Len(all_results) = 1

\* C28: the display form recorded for an invocation is the empty string
\* whenever its result has no rows (machine form "[]"): a query that
\* failed and a query that succeeded with columns but no rows are both
\* recorded with display form "" and machine form "[]", in the round and
\* in the assistant turn the engine reads in the later rounds.
NoRowsRecorded(entry_db, entry) ==
    entry_db.result = <<>> /\ entry.result = <<>>

C28_State ==
    /\ \A r \in 1..Len(all_results) : \A i \in 1..Len(all_results[r]) :
          /\ all_results_db[r][i].result = <<>>
                => all_results[r][i].result = <<>>
          /\ all_results[r][i].sql_query = "BAD"
                => NoRowsRecorded(all_results_db[r][i], all_results[r][i])
    /\ \A r \in 1..(Len(formatted_SQL_prompt) - 2) :
          formatted_SQL_prompt[2 + r].content.iteration_results
              = all_results[r]

C28_Step ==
    (/\ pc = "exec" /\ k <= Len(response.tool_calls)
     /\ response.tool_calls[k].name = "execute_sql_query"
     /\ response.tool_calls[k].valid
     /\ \/ response.tool_calls[k].sql_query = "BAD"
        \/ response.tool_calls[k].sql_query = "SELECT" /\ db = 0)
        => /\ pc' = "exec"
           /\ NoRowsRecorded(iteration_results_db'[k], iteration_results'[k])

C28_EmptyAndFailedAlike == []C28_State /\ [][C28_Step]_vars

C28_Witness ==
    /\ pc = "exec"
    /\ engine_calls = 3
    /\ db = 0
    /\ ~store_connect_failed
    /\ all_results[1][1].sql_query = "SELECT"
    /\ all_results[2][1].sql_query = "BAD"
    /\ formatted_SQL_prompt[3].content.iteration_results[1].result = <<>>
    /\ formatted_SQL_prompt[4].content.iteration_results[1].result = <<>>
    /\ all_results_db[1][1].result = all_results_db[2][1].result

====
